---- MODULE Spec2Model ----
(***************************************************************************)
(* NoteSlide: conversion of a PDF deck or page images into an editable     *)
(* presentation.  The module models                                        *)
(*   - modules/ai_analyzer.py : analyze_slide, analyze_slides_batch        *)
(*   - modules/pdf_processor.py : extract_from_pdf, has_sufficient_text    *)
(*   - modules/pptx_builder.py : the three builders                        *)
(*   - app.py : convert, the per-job tier cascade                          *)
(*                                                                         *)
(* Text is modelled lexically.  A model reply is a sequence of tokens,     *)
(* each a chunk of the reply's characters (insignificant whitespace        *)
(* between chunks is left out):                                            *)
(*   fence   ``` (with an optional json tag when it opens the reply)       *)
(*   lbrace  {     rbrace  }                                               *)
(*   elem    the text of one element object {"type": ..., "x": ...}        *)
(*   arr     the text of a JSON array without braces, e.g. [1, 2]          *)
(*   scalar  the text of a JSON string or number literal, e.g. "abc"       *)
(*   prose   a word that is no JSON and holds no brace or backtick         *)
(* The object  lbrace e1 .. ek rbrace  is the text {"elements":[e1,..,ek]};*)
(* lbrace rbrace is {}.                                                    *)
(*                                                                         *)
(* Lengths are whole numbers: pt and percent on the way in, EMU and pixels *)
(* on the way out.  Three specifications share the variables: Spec (one    *)
(* job through convert), SpecAnalyze (one reply through analyze_slide and  *)
(* the vision builder) and SpecBuild (one deck through a builder).         *)
(***************************************************************************)
EXTENDS Integers, Sequences, FiniteSets, TLC

VARIABLES
    pc,             \* position of the job inside convert (or of one analysis)
    file_type,      \* "pdf" | "images"                       (app.py:86-107)
    use_ai,         \* GEMINI_API_KEY is set                  (app.py:115)
    npages,         \* pages of the source
    page_images,    \* the rasters, one per page              (app.py:123, 172)
    replies,        \* what the vision model did for each page so far
    layouts,        \* analyze_slides_batch's list            (ai_analyzer.py:212)
    total_elements, \* app.py:132, -1 before it is computed
    slides_data,    \* extract_from_pdf's result              (app.py:145, 159)
    method_used,    \* app.py:116
    deck,           \* the slides of the presentation being built
    output_file,    \* "none" | "written": the file at output_path
    job_dir,        \* the job directory exists               (app.py:81, 211)
    response,       \* the HTTP answer, status "none" while the job runs
    calls,          \* the stages run so far, in order
    model_calls,    \* the pages model.generate_content was called for, in order
    raised          \* the stages that raised

vars == <<pc, file_type, use_ai, npages, page_images, replies, layouts,
          total_elements, slides_data, method_used, deck, output_file,
          job_dir, response, calls, model_calls, raised>>

-----------------------------------------------------------------------------
(* Bounds *)

MaxPages == 2
MaxElems == 2
MaxProse == 2

-----------------------------------------------------------------------------
(* JSON values of an element's numeric fields *)

Missing == [k |-> "missing", n |-> 0]
Null == [k |-> "null", n |-> 0]
Num(n) == [k |-> "num", n |-> n]
NumStr(n) == [k |-> "numstr", n |-> n]      \* a string holding a numeral, "60"
Word == [k |-> "str", n |-> 0]              \* a string holding no numeral, "left"

NoKey == "<absent>"                         \* the key is not in the object

(* Colours are strings, kept as their characters. *)
HexDigits == {"0", "1", "2", "3", "4", "5", "6", "7", "8", "9",
              "a", "b", "c", "d", "e", "f", "A", "B", "C", "D", "E", "F"}
NoColor == <<NoKey>>
ColGood == <<"#", "3", "3", "3", "3", "3", "3">>
ColShort == <<"#", "f", "f", "f">>
ColBad == <<"#", "g", "r", "e", "e", "n", "!">>
ColBlack == <<"#", "0", "0", "0", "0", "0", "0">>
ColWhite == <<"#", "F", "F", "F", "F", "F", "F">>

(* Raw element objects of a reply.  Geometry is in percent of the slide. *)
RawElem(type, x, y, width, height, font_size, font_color) ==
    [type |-> type, x |-> x, y |-> y, width |-> width, height |-> height,
     font_size |-> font_size, font_color |-> font_color]

E_TEXT == RawElem("text", Num(5), Num(10), Num(40), Num(8), Num(24), ColGood)
E_SHAPE == RawElem("shape", Num(0), Num(0), Num(100), Num(15), Missing, NoColor)
E_IMAGE == RawElem("image", Num(60), Num(20), Num(35), Num(60), Missing, NoColor)
E_IMAGE0 == RawElem("image", Num(60), Num(20), Num(0), Num(60), Missing, NoColor)
E_CHART == RawElem("chart", Num(5), Num(10), Num(40), Num(8), Num(24), ColGood)
E_BARE == RawElem(NoKey, Missing, Missing, Missing, Missing, Missing, NoColor)
E_XNULL == RawElem("text", Null, Num(10), Num(40), Num(8), Num(24), ColGood)
E_XWORD == RawElem("text", Word, Num(10), Num(40), Num(8), Num(24), ColGood)
E_XNUMSTR == RawElem("text", NumStr(7), Num(10), Num(40), Num(8), NumStr(18), ColShort)
E_FSWORD == RawElem("text", Num(5), Num(10), Num(40), Num(8), Word, ColGood)
E_BADCOLOR == RawElem("text", Num(5), Num(10), Num(40), Num(8), Num(24), ColBad)

WellFormedElems == {E_TEXT, E_SHAPE, E_IMAGE, E_IMAGE0, E_BARE, E_XNUMSTR}
UnknownTypeElems == {E_CHART}
WrongKindElems == {E_XNULL, E_XWORD, E_FSWORD}
RawElems == WellFormedElems \cup UnknownTypeElems \cup WrongKindElems
                \cup {E_BADCOLOR}

(* Tokens *)
Tok(t) == [t |-> t, e |-> E_BARE]
ElemTok(e) == [t |-> "elem", e |-> e]
FENCE == Tok("fence")
LB == Tok("lbrace")
RB == Tok("rbrace")
ARR == Tok("arr")
SCALAR == Tok("scalar")
PROSE == Tok("prose")

SeqsUpTo(S, n) == UNION {[1..m -> S] : m \in 0..n}


-----------------------------------------------------------------------------
(* modules/ai_analyzer.py *)

(* SlideLayout(): no elements, background "#FFFFFF". *)
SlideLayout == [elements |-> <<>>, background_color |-> ColWhite]

Returned(layout) == [raised |-> FALSE, layout |-> layout]
Raised == [raised |-> TRUE, layout |-> SlideLayout]

(* dict.get(key, default): the default only when the key is absent; a key  *)
(* that is present with null yields null.                                  *)
GetVal(v, default) == IF v.k = "missing" THEN default ELSE v
GetStr(s, default) == IF s = NoKey THEN default ELSE s
GetColor(c, default) == IF c = NoColor THEN default ELSE c

(* float(v) and int(v): a number or a numeral string converts, None and    *)
(* any other string raise (TypeError, ValueError).                          *)
Converts(v) == v.k \in {"num", "numstr"}

(* SlideElement(...) of one item of the elements list.  An item that is    *)
(* no object has no get (AttributeError).                                  *)
ItemRaises(tok) ==
    \/ tok.t # "elem"
    \/ ~Converts(GetVal(tok.e.x, Num(0)))
    \/ ~Converts(GetVal(tok.e.y, Num(0)))
    \/ ~Converts(GetVal(tok.e.width, Num(10)))
    \/ ~Converts(GetVal(tok.e.height, Num(5)))
    \/ ~Converts(GetVal(tok.e.font_size, Num(14)))

SlideElement(tok) ==
    [type |-> GetStr(tok.e.type, "text"),
     x |-> GetVal(tok.e.x, Num(0)).n,
     y |-> GetVal(tok.e.y, Num(0)).n,
     width |-> GetVal(tok.e.width, Num(10)).n,
     height |-> GetVal(tok.e.height, Num(5)).n,
     font_size |-> GetVal(tok.e.font_size, Num(14)).n,
     font_color |-> GetColor(tok.e.font_color, ColBlack)]

(* The loop over elements_data: elements are appended in order, and the    *)
(* first item that raises ends the call with that exception.               *)
RECURSIVE BuildElements(_, _)
BuildElements(items, acc) ==
    IF items = <<>> THEN Returned([SlideLayout EXCEPT !.elements = acc])
    ELSE IF ItemRaises(Head(items)) THEN Raised
    ELSE BuildElements(Tail(items), Append(acc, SlideElement(Head(items))))

(* json.loads on a token sequence. *)
JsonFail == [kind |-> "fail", items |-> <<>>]
JsonLoads(toks) ==
    IF Len(toks) = 1 /\ toks[1].t = "arr" THEN [kind |-> "arr", items |-> <<>>]
    ELSE IF Len(toks) = 1 /\ toks[1].t = "scalar"
        THEN [kind |-> "scalar", items |-> <<>>]
    ELSE IF Len(toks) = 1 /\ toks[1].t = "elem"
        THEN [kind |-> "obj", items |-> <<>>]      \* an object with no "elements"
    ELSE IF /\ Len(toks) >= 2
            /\ toks[1] = LB
            /\ toks[Len(toks)] = RB
            /\ \A j \in 2..(Len(toks) - 1) : toks[j].t \in {"elem", "arr", "scalar"}
        THEN [kind |-> "obj", items |-> SubSeq(toks, 2, Len(toks) - 1)]
    ELSE JsonFail

(* The two re.sub calls, made only when the text starts with a fence: the  *)
(* opening fence goes, then a fence that ends the text goes.               *)
StripFences(toks) ==
    IF toks # <<>> /\ toks[1] = FENCE
    THEN LET t1 == Tail(toks)
         IN IF t1 # <<>> /\ t1[Len(t1)] = FENCE
            THEN SubSeq(t1, 1, Len(t1) - 1) ELSE t1
    ELSE toks

HasOpen(tok) == tok.t \in {"lbrace", "elem"}
HasClose(tok) == tok.t \in {"rbrace", "elem"}

(* re.search(r'\{[\s\S]*\}', text): greedy, from the first { of the text   *)
(* to the last } after it; <<>> when there is no match.                    *)
RegexSearch(toks) ==
    LET opens == {j \in 1..Len(toks) : HasOpen(toks[j])}
    IN IF opens = {} THEN <<>>
       ELSE LET first == CHOOSE j \in opens : \A k \in opens : j <= k
                closes == {j \in first..Len(toks) : HasClose(toks[j])}
            IN IF closes = {} THEN <<>>
               ELSE LET last == CHOOSE j \in closes : \A k \in closes : k <= j
                    IN SubSeq(toks, first, last)

(* data.get(...) and the element loop on what json.loads returned. *)
LayoutOfData(data) ==
    IF data.kind # "obj" THEN Raised       \* a list or a str has no get
    ELSE BuildElements(data.items, <<>>)

(* analyze_slide from the reply text on. *)
ParseReply(text) ==
    IF text = <<>> THEN Returned(SlideLayout)
    ELSE LET stripped == StripFences(text)
             data == JsonLoads(stripped)
         IN IF data.kind # "fail" THEN LayoutOfData(data)
            ELSE LET m == RegexSearch(stripped)
                 IN IF m = <<>> THEN Returned(SlideLayout)
                    ELSE IF JsonLoads(m).kind = "fail" THEN Returned(SlideLayout)
                    ELSE LayoutOfData(JsonLoads(m))

(* A model call either throws or answers with a text. *)
CallThrows == [throws |-> TRUE, text |-> <<>>]
Answer(text) == [throws |-> FALSE, text |-> text]

analyze_slide(call) == IF call.throws THEN Raised ELSE ParseReply(call.text)

(* Mutant of BatchAppend: a page whose analysis raised gets no layout. *)
BatchAppendDropsFailed(ls, call) ==
    IF analyze_slide(call).raised THEN ls ELSE Append(ls, analyze_slide(call).layout)

(* One pass of analyze_slides_batch's loop: the page's layout, or an empty *)
(* layout when analyze_slide raised, is appended.                          *)
BatchAppend(ls, call) ==
    LET r == analyze_slide(call)
    IN Append(ls, IF r.raised THEN SlideLayout ELSE r.layout)

RECURSIVE SumElements(_)
SumElements(ls) ==
    IF ls = <<>> THEN 0 ELSE Len(Head(ls).elements) + SumElements(Tail(ls))

-----------------------------------------------------------------------------
(* modules/pptx_builder.py *)

(* str.lstrip("#") *)
RECURSIVE LStripHash(_)
LStripHash(c) == IF c # <<>> /\ Head(c) = "#" THEN LStripHash(Tail(c)) ELSE c

(* _hex_to_rgb: black when the length is not 6; int(.., 16) raises         *)
(* ValueError on a character that is no hex digit.                         *)
HexRaises(c) ==
    LET h == LStripHash(c)
    IN Len(h) = 6 /\ \E j \in 1..6 : h[j] \notin HexDigits

(* int() of a float: towards zero. *)
Trunc(a, b) == IF a >= 0 THEN a \div b ELSE -((-a) \div b)
Min(a, b) == IF a <= b THEN a ELSE b
Max(a, b) == IF a >= b THEN a ELSE b

(* Mutant of CropRect: the percentages scaled to pixels and not clamped. *)
CropRectUnclamped(elem, orig) ==
    [x0 |-> Trunc(orig.w * elem.x, 100), y0 |-> Trunc(orig.h * elem.y, 100),
     x1 |-> Trunc(orig.w * elem.x, 100) + Trunc(orig.w * elem.width, 100),
     y1 |-> Trunc(orig.h * elem.y, 100) + Trunc(orig.h * elem.height, 100)]

(* The crop rectangle of an image element on a raster, after clamping. *)
CropRect(elem, orig) ==
    LET crop_x == Max(0, Min(Trunc(orig.w * elem.x, 100), orig.w - 1))
        crop_y == Max(0, Min(Trunc(orig.h * elem.y, 100), orig.h - 1))
        crop_w == Trunc(orig.w * elem.width, 100)
        crop_h == Trunc(orig.h * elem.height, 100)
    IN [x0 |-> crop_x, y0 |-> crop_y,
        x1 |-> Min(crop_x + crop_w, orig.w), y1 |-> Min(crop_y + crop_h, orig.h)]

(* Lengths are in EMU. PT_TO_EMU; Inches(13.333) and Inches(7.5), an inch  *)
(* being 914400 EMU and Inches() truncating; Emu(100000); the 10 pt of a   *)
(* text box of the direct builder.                                         *)
PT_TO_EMU == 12700
slide_w == 12191695
slide_h == 6858000
MinEmu == 100000
MinPt == 10

(* Where a shape is placed on its slide. *)
Box(left, top, width, height) ==
    [left |-> left, top |-> top, width |-> width, height |-> height]

(* The part of a page raster a picture shows: the page of the raster and  *)
(* the rectangle handed to Image.crop; NoCrop for a shape that shows none. *)
Crop(i, rect) ==
    [page |-> i, x0 |-> rect.x0, y0 |-> rect.y0, x1 |-> rect.x1, y1 |-> rect.y1]
NoCrop == [page |-> 0, x0 |-> 0, y0 |-> 0, x1 |-> 0, y1 |-> 0]

(* A shape of a slide: its kind, the position in the input of the item it  *)
(* was made from, its placement and what it shows of the raster.           *)
Shape(kind, j, box, crop) == [kind |-> kind, of |-> j, box |-> box, crop |-> crop]

(* Mutant of ElemBox: the percentages converted and no minimum applied. *)
ElemBoxNoFloor(elem) ==
    Box(Trunc(slide_w * elem.x, 100), Trunc(slide_h * elem.y, 100),
        Trunc(slide_w * elem.width, 100), Trunc(slide_h * elem.height, 100))

(* Percentages of the slide to EMU, then the minimum size. *)
ElemBox(elem) ==
    Box(Trunc(slide_w * elem.x, 100), Trunc(slide_h * elem.y, 100),
        Max(Trunc(slide_w * elem.width, 100), MinEmu),
        Max(Trunc(slide_h * elem.height, 100), MinEmu))

(* The shapes one element adds to its slide: the chain of if/elif on       *)
(* elem.type, with no else.                                                *)
ElemShapes(elem, j, i, images) ==
    IF elem.type = "text" THEN <<Shape("textbox", j, ElemBox(elem), NoCrop)>>
    ELSE IF elem.type = "shape" THEN <<Shape("rect", j, ElemBox(elem), NoCrop)>>
    ELSE IF elem.type = "image"
        THEN IF i <= Len(images)
                /\ CropRect(elem, images[i]).x1 > CropRect(elem, images[i]).x0
                /\ CropRect(elem, images[i]).y1 > CropRect(elem, images[i]).y0
             THEN <<Shape("picture", j, ElemBox(elem),
                          Crop(i, CropRect(elem, images[i])))>>
             ELSE <<>>
    ELSE <<>>

(* What raises while an element is placed: the font colour of a text. *)
ElemRaises(elem) == elem.type = "text" /\ HexRaises(elem.font_color)

(* Mutant of SlideShapes: each shape is put under the ones added so far. *)
RECURSIVE SlideShapesUnder(_, _, _, _)
SlideShapesUnder(elements, j, i, images) ==
    IF j > Len(elements) THEN <<>>
    ELSE SlideShapesUnder(elements, j + 1, i, images)
            \o ElemShapes(elements[j], j, i, images)

RECURSIVE SlideShapes(_, _, _, _)
SlideShapes(elements, j, i, images) ==
    IF j > Len(elements) THEN <<>>
    ELSE ElemShapes(elements[j], j, i, images)
            \o SlideShapes(elements, j + 1, i, images)

LayoutRaises(layout) ==
    \/ HexRaises(layout.background_color)
    \/ \E j \in 1..Len(layout.elements) : ElemRaises(layout.elements[j])

(* Mutant of build_pptx_from_ai_data: a layout with no elements gets no    *)
(* slide.                                                                  *)
build_pptx_from_ai_data_skipping_empty(ls, images) ==
    IF ls = <<>> \/ \E i \in 1..Len(ls) : LayoutRaises(ls[i])
    THEN [raised |-> TRUE, slides |-> <<>>]
    ELSE [raised |-> FALSE,
          slides |-> SelectSeq([i \in 1..Len(ls) |-> SlideShapes(ls[i].elements, 1, i, images)],
                               LAMBDA sl : sl # <<>>)]

(* build_pptx_from_ai_data: one slide per layout, in order; the file is    *)
(* saved at the end, so a call that raises writes nothing.                 *)
build_pptx_from_ai_data(ls, images) ==
    IF ls = <<>> \/ \E i \in 1..Len(ls) : LayoutRaises(ls[i])
    THEN [raised |-> TRUE, slides |-> <<>>]
    ELSE [raised |-> FALSE,
          slides |-> [i \in 1..Len(ls) |-> SlideShapes(ls[i].elements, 1, i, images)]]

(* build_pptx_with_background_images: one full-bleed picture per raster. *)
build_pptx_with_background_images(images) ==
    [raised |-> FALSE,
     slides |-> [i \in 1..Len(images) |->
                    <<Shape("picture", 0, Box(0, 0, slide_w, slide_h), NoCrop)>>]]

(* build_pptx_from_pdf_data: a text box per text block, then a picture per *)
(* image block, whose image is first saved as PNG.                         *)
(* The placement of a text block: pt to EMU, at least 10 pt a side. *)
TextBox(tb) ==
    Box(tb.x * PT_TO_EMU, tb.y * PT_TO_EMU,
        Max(tb.width, MinPt) * PT_TO_EMU, Max(tb.height, MinPt) * PT_TO_EMU)

(* The rectangle of an embedded image on its page, which the builder       *)
(* converts with no minimum.                                               *)
ImageRect == Box(0, 0, 100 * PT_TO_EMU, 50 * PT_TO_EMU)

PageShapes(page) ==
    [j \in 1..Len(page.text_blocks) |->
        Shape("textbox", j, TextBox(page.text_blocks[j]), NoCrop)]
        \o [j \in 1..Len(page.image_blocks) |-> Shape("picture", j, ImageRect, NoCrop)]

PageRaises(page) ==
    \E j \in 1..Len(page.image_blocks) : page.image_blocks[j] = "png_fails"

build_pptx_from_pdf_data(sd) ==
    IF sd = <<>> \/ \E i \in 1..Len(sd) : PageRaises(sd[i])
    THEN [raised |-> TRUE, slides |-> <<>>]
    ELSE [raised |-> FALSE, slides |-> [i \in 1..Len(sd) |-> PageShapes(sd[i])]]

-----------------------------------------------------------------------------
(* modules/pdf_processor.py *)

(* A text is kept as the lengths of its leading whitespace, of what        *)
(* str.strip() leaves, and of its trailing whitespace.                     *)
Text(lead, core, trail) == [lead |-> lead, core |-> core, trail |-> trail]
Strip(t) == Text(0, t.core, 0)
StrLen(t) == t.lead + t.core + t.trail

SufficientChars == 20

(* A span of a page: its text and its bounding box (x0, y0, x1, y1) in pt. *)
Span(text, bbox) == [text |-> text, bbox |-> bbox]

(* The TextBlock made from a span. *)
TextBlock(span) ==
    [text |-> Strip(span.text), x |-> span.bbox[1], y |-> span.bbox[2],
     width |-> span.bbox[3] - span.bbox[1], height |-> span.bbox[4] - span.bbox[2]]

RECURSIVE TotalChars(_)
TotalChars(tbs) ==
    IF tbs = <<>> THEN 0 ELSE StrLen(Strip(Head(tbs).text)) + TotalChars(Tail(tbs))

(* Mutant of has_sufficient_text: the test total_chars >= 20. *)
has_sufficient_text_inclusive(slide) == TotalChars(slide.text_blocks) >= SufficientChars

has_sufficient_text(slide) == TotalChars(slide.text_blocks) > SufficientChars

(* extract_from_pdf on one page: spans are stripped and the empty ones     *)
(* dropped; an embedded image that does not decode is skipped.             *)
RECURSIVE TextBlocks(_)
TextBlocks(spans) ==
    IF spans = <<>> THEN <<>>
    ELSE IF StrLen(Strip(Head(spans).text)) = 0 THEN TextBlocks(Tail(spans))
    ELSE <<TextBlock(Head(spans))>> \o TextBlocks(Tail(spans))

RECURSIVE ImageBlocks(_)
ImageBlocks(imgs) ==
    IF imgs = <<>> THEN <<>>
    ELSE IF Head(imgs) = "undecodable" THEN ImageBlocks(Tail(imgs))
    ELSE <<Head(imgs)>> \o ImageBlocks(Tail(imgs))

SlideData(page) ==
    [text_blocks |-> TextBlocks(page.spans), image_blocks |-> ImageBlocks(page.images)]

extract_from_pdf(doc) == [i \in 1..Len(doc) |-> SlideData(doc[i])]

AnySufficient(sd) == \E i \in 1..Len(sd) : has_sufficient_text(sd[i])

-----------------------------------------------------------------------------
(* Inputs of a job *)

(* A raster: its pixel size. *)
Raster(w, h) == [w |-> w, h |-> h]
PageRaster == Raster(200, 100)

(* What the vision model may answer for a page. *)
JobReplies ==
    { <<>>,
      <<FENCE, LB, RB, FENCE>>,
      <<LB, ElemTok(E_TEXT), RB>>,
      <<FENCE, LB, ElemTok(E_SHAPE), ElemTok(E_IMAGE), RB, FENCE, PROSE>>,
      <<LB, ElemTok(E_CHART), RB>>,
      <<LB, ElemTok(E_BADCOLOR), RB>>,
      <<LB, ElemTok(E_TEXT), ElemTok(E_XNULL), RB>>,
      <<ARR>> }

ModelCalls == {CallThrows} \cup {Answer(r) : r \in JobReplies}

(* Pages of a native document: its spans and its embedded                  *)
(* images ("png_ok": decodes and saves as PNG; "png_fails": decodes, and   *)
(* Image.save(format="PNG") raises; "undecodable").                        *)
Page(spans, images) == [spans |-> spans, images |-> images]
SamplePages ==
    { Page(<<>>, <<"png_ok">>),
      Page(<<Span(Text(2, 0, 1), <<40, 40, 52, 52>>)>>, <<>>),
      Page(<<Span(Text(1, 10, 1), <<40, 40, 160, 52>>),
             Span(Text(0, 10, 0), <<40, 60, 40, 60>>)>>, <<>>),
      Page(<<Span(Text(0, 10, 2), <<40, 40, 160, 52>>),
             Span(Text(0, 11, 0), <<40, 60, 45, 72>>)>>, <<>>),
      Page(<<Span(Text(0, 21, 0), <<40, 40, 300, 52>>)>>, <<"undecodable", "png_ok">>),
      Page(<<Span(Text(0, 21, 0), <<0, 0, 0, 0>>)>>, <<"png_fails">>) }

-----------------------------------------------------------------------------
(* app.py: convert *)

NoResponse == [status |-> "none", method |-> "unknown", slide_count |-> 0, cause |-> ""]

Init ==
    /\ pc = "rasterize"
    /\ file_type \in {"pdf", "images"}
    /\ use_ai \in BOOLEAN
    /\ npages \in 1..MaxPages
    /\ page_images = <<>>
    /\ replies = <<>>
    /\ layouts = <<>>
    /\ total_elements = -1
    /\ slides_data = <<>>
    /\ method_used = "unknown"
    /\ deck = <<>>
    /\ output_file = "none"
    /\ job_dir = TRUE
    /\ response = NoResponse
    /\ calls = <<>>
    /\ model_calls = <<>>
    /\ raised = {}

(* Mutant of NextTier: the vision tier is tried again. *)
NextTierRetry(ft) == "vision"

(* Mutant of NextTier: every job goes on to the background images. *)
NextTierAlwaysRaster(ft) == "raster"

(* The tier after the vision tier: the except branch of a PDF job extracts *)
(* directly, that of an image job goes to the background images.           *)
NextTier(ft) == IF ft = "pdf" THEN "direct" ELSE "raster"

(* Mutant of VisionFound: the test total_elements > 1. *)
VisionFoundAboveOne(total) == total > 1

(* total_elements > 0 *)
VisionFound(total) == total > 0

(* Mutant of Abort: the job directory is left in place. *)
AbortKeepsJobDir(stage) ==
    /\ pc' = "failed"
    /\ raised' = raised \cup {stage}
    /\ calls' = Append(calls, stage)
    /\ response' = [status |-> "error", method |-> "unknown", slide_count |-> 0,
                    cause |-> stage]
    /\ UNCHANGED <<model_calls, file_type, use_ai, npages, page_images, replies, layouts,
                   total_elements, slides_data, method_used, deck, job_dir,
                   output_file>>

(* The outer except: the job directory is removed and the error answered.  *)
Abort(stage) ==
    /\ pc' = "failed"
    /\ raised' = raised \cup {stage}
    /\ calls' = Append(calls, stage)
    /\ job_dir' = FALSE
    /\ output_file' = "none"
    /\ response' = [status |-> "error", method |-> "unknown", slide_count |-> 0,
                    cause |-> stage]
    /\ UNCHANGED <<model_calls, file_type, use_ai, npages, page_images, replies, layouts,
                   total_elements, slides_data, method_used, deck>>

(* A builder returned: the file is written and the job answers. *)
Succeed(stage, method, slides) ==
    /\ pc' = "done"
    /\ calls' = Append(calls, stage)
    /\ deck' = slides
    /\ output_file' = "written"
    /\ method_used' = method
    /\ response' = [status |-> "ok", method |-> method,
                    slide_count |-> Len(page_images), cause |-> ""]
    /\ UNCHANGED <<model_calls, file_type, use_ai, npages, page_images, replies, layouts,
                   total_elements, slides_data, job_dir, raised>>

(* pdf_pages_to_images / images_to_slide_data *)
Rasterize ==
    /\ pc = "rasterize"
    /\ page_images' = [i \in 1..npages |-> PageRaster]
    /\ pc' = IF use_ai THEN "vision" ELSE NextTier(file_type)
    /\ calls' = Append(calls, "rasterize")
    /\ UNCHANGED <<model_calls, file_type, use_ai, npages, replies, layouts, total_elements,
                   slides_data, method_used, deck, output_file, job_dir,
                   response, raised>>

RasterizeFails ==
    /\ pc = "rasterize"
    /\ Abort("rasterize")

(* Mutant of NextPage: the first page again. *)
NextPageFirst(done) == 1

(* enumerate(images): the page analysed after done pages, counted from 1. *)
NextPage(done) == done + 1

(* analyze_slides_batch, one page per step: analyze_slide calls            *)
(* model.generate_content once for the page.                               *)
AnalyzePage ==
    /\ pc = "vision"
    /\ Len(replies) < Len(page_images)
    /\ \E call \in ModelCalls :
        /\ replies' = Append(replies, call)
        /\ layouts' = BatchAppend(layouts, call)
    /\ calls' = Append(calls, "analyze")
    /\ model_calls' = Append(model_calls, NextPage(Len(replies)))
    /\ UNCHANGED <<pc, file_type, use_ai, npages, page_images, total_elements,
                   slides_data, method_used, deck, output_file, job_dir,
                   response, raised>>

(* The batch returned: total_elements decides.  Past the vision tier the   *)
(* layouts are read no more.                                               *)
Decide ==
    /\ pc = "vision"
    /\ Len(replies) = Len(page_images)
    /\ total_elements' = SumElements(layouts)
    /\ IF VisionFound(SumElements(layouts))
       THEN pc' = "build_ai" /\ UNCHANGED <<model_calls, replies, layouts>>
       ELSE pc' = NextTier(file_type) /\ replies' = <<>> /\ layouts' = <<>>
    /\ UNCHANGED <<model_calls, file_type, use_ai, npages, page_images, slides_data,
                   method_used, deck, output_file, job_dir, response, calls,
                   raised>>

BuildAi ==
    /\ pc = "build_ai"
    /\ LET r == build_pptx_from_ai_data(layouts, page_images)
       IN IF r.raised
          THEN /\ pc' = NextTier(file_type)
               /\ raised' = raised \cup {"build_ai"}
               /\ calls' = Append(calls, "build_ai")
               /\ replies' = <<>>
               /\ layouts' = <<>>
               /\ UNCHANGED <<model_calls, file_type, use_ai, npages, page_images,
                              total_elements, slides_data, method_used, deck,
                              output_file, job_dir, response>>
          ELSE Succeed("build_ai", "ai_vision", r.slides)

Extract ==
    /\ pc = "direct"
    /\ \E doc \in [1..npages -> SamplePages] :
        /\ slides_data' = extract_from_pdf(doc)
        /\ pc' = IF AnySufficient(extract_from_pdf(doc)) THEN "build_pdf" ELSE "raster"
    /\ calls' = Append(calls, "extract")
    /\ UNCHANGED <<model_calls, file_type, use_ai, npages, page_images, replies, layouts,
                   total_elements, method_used, deck, output_file, job_dir,
                   response, raised>>

ExtractFails ==
    /\ pc = "direct"
    /\ Abort("extract")

BuildPdf ==
    /\ pc = "build_pdf"
    /\ LET r == build_pptx_from_pdf_data(slides_data)
       IN IF r.raised THEN Abort("build_pdf")
          ELSE Succeed("build_pdf", "direct_extraction", r.slides)

BuildRaster ==
    /\ pc = "raster"
    /\ Succeed("build_raster", "image_fallback",
               build_pptx_with_background_images(page_images).slides)

Next ==
    \/ Rasterize
    \/ RasterizeFails
    \/ AnalyzePage
    \/ Decide
    \/ BuildAi
    \/ Extract
    \/ ExtractFails
    \/ BuildPdf
    \/ BuildRaster

Spec == Init /\ [][Next]_vars

-----------------------------------------------------------------------------
(* Properties of a job *)

Range(f) == {f[j] : j \in DOMAIN f}
Ended == pc \in {"done", "failed"}
Ran(stage) == stage \in Range(calls)
CountCalls(stage) == Cardinality({j \in DOMAIN calls : calls[j] = stage})

(* The trimmed characters of a page's text blocks, counted block by block. *)
RECURSIVE CoreSum(_)
CoreSum(tbs) == IF tbs = <<>> THEN 0 ELSE Head(tbs).text.core + CoreSum(Tail(tbs))
SomePageOver(sd, n) == \E i \in 1..Len(sd) : CoreSum(sd[i].text_blocks) > n

(* C1, as stated: a job past rasterization with a credential and more than *)
(* zero vision elements in total reports ai_vision, whatever else happens  *)
(* in the job.                                                             *)
C1_AlwaysVision ==
    (Ended /\ "rasterize" \notin raised /\ use_ai /\ total_elements > 0)
        => response.method = "ai_vision"

(* C1, amended: with a credential and more than zero vision elements, the  *)
(* job reports ai_vision exactly when build_pptx_from_ai_data returns, and *)
(* then without running the direct extractor; when that builder raises,    *)
(* the job goes on to the next tier and ai_vision is not reported.         *)
C1_VisionUnlessBuilderRaises ==
    (Ended /\ use_ai /\ total_elements > 0) =>
        /\ Ran("build_ai")
        /\ IF "build_ai" \notin raised
           THEN /\ pc = "done"
                /\ response.status = "ok"
                /\ response.method = "ai_vision"
                /\ method_used = "ai_vision"
                /\ ~Ran("extract")
                /\ calls[Len(calls)] = "build_ai"
           ELSE /\ response.method # "ai_vision"
                /\ Ran(IF file_type = "pdf" THEN "extract" ELSE "build_raster")

C1_Witness ==
    /\ pc = "done"
    /\ use_ai
    /\ file_type = "pdf"
    /\ total_elements > 0
    /\ method_used = "ai_vision"
    /\ output_file = "written"

(* C2: with a credential and zero vision elements in total (every page     *)
(* empty or failed), ai_vision is never built nor reported; an image job   *)
(* ends with image_fallback without running the direct extractor; a PDF    *)
(* job runs the direct extractor and goes to the direct builder exactly    *)
(* when some page has sufficient text, to the background images otherwise, *)
(* and reports the method of the builder that returned.                    *)
C2_FallsThrough ==
    (use_ai /\ total_elements = 0) =>
        /\ ~Ran("build_ai")
        /\ method_used # "ai_vision"
        /\ file_type = "images" =>
            /\ ~Ran("extract")
            /\ pc \in {"raster", "done"}
            /\ pc = "done" => method_used = "image_fallback"
        /\ (file_type = "pdf" /\ Ran("extract") /\ "extract" \notin raised) =>
            /\ AnySufficient(slides_data) =>
                 /\ pc = "build_pdf" \/ Ran("build_pdf")
                 /\ ~Ran("build_raster")
                 /\ pc = "done" => method_used = "direct_extraction"
            /\ ~AnySufficient(slides_data) =>
                 /\ pc = "raster" \/ Ran("build_raster")
                 /\ ~Ran("build_pdf")
                 /\ pc = "done" => method_used = "image_fallback"
        /\ (file_type = "pdf" /\ Ended) => Ran("extract")

C2_Witness ==
    /\ pc = "done"
    /\ use_ai
    /\ total_elements = 0
    /\ file_type = "pdf"
    /\ CountCalls("analyze") = npages
    /\ method_used = "direct_extraction"

C4_NeverFailsAfterRaster ==
    (Ended /\ Ran("rasterize") /\ "rasterize" \notin raised) =>
        /\ pc = "done"
        /\ response.status = "ok"
        /\ response.method \in {"ai_vision", "direct_extraction", "image_fallback"}

(* C5: when rasterization fails the job answers with an error that carries *)
(* the cause, nothing else has run, no method is reported, and nothing of  *)
(* the job is left on disk.                                                *)
C5_RasterFailureIsFatal ==
    "rasterize" \in raised =>
        /\ pc = "failed"
        /\ response.status = "error"
        /\ response.cause = "rasterize"
        /\ calls = <<"rasterize">>
        /\ method_used = "unknown"
        /\ response.method = "unknown"
        /\ deck = <<>>
        /\ output_file = "none"
        /\ ~job_dir

C5_Witness == pc = "failed" /\ raised = {"rasterize"} /\ ~job_dir

(* C6: while and after the batch runs, the list holds one layout per page  *)
(* analysed, in page order: the empty layout where the page's analysis     *)
(* raised, the page's own result elsewhere; the batch is left only with    *)
(* all pages analysed.                                                     *)
C6_BatchKeepsEveryPage ==
    /\ pc \in {"vision", "build_ai"} =>
        /\ Len(layouts) = Len(replies)
        /\ \A i \in 1..Len(replies) :
             layouts[i] = IF analyze_slide(replies[i]).raised THEN SlideLayout
                          ELSE analyze_slide(replies[i]).layout
    /\ pc = "build_ai" => Len(layouts) = npages
    /\ (use_ai /\ pc \notin {"rasterize", "vision", "failed"}) =>
            CountCalls("analyze") = npages
    /\ "analyze" \notin raised

C6_Witness ==
    /\ pc = "build_ai"
    /\ npages = 2
    /\ analyze_slide(replies[1]).raised
    /\ layouts[1] = SlideLayout
    /\ layouts[2].elements # <<>>

(* C14: a job that succeeds has written one slide for each page of the     *)
(* source and reports that number, whatever the method; under ai_vision    *)
(* the slide of page i is the one built from layout i, also when that      *)
(* layout has no elements: its slide is there, at index i, and is empty.   *)
C14_OneSlidePerPage ==
    pc = "done" =>
        /\ output_file = "written"
        /\ Len(deck) = npages
        /\ response.slide_count = npages
        /\ method_used = "ai_vision" =>
              /\ Len(layouts) = npages
              /\ \A i \in 1..npages :
                    /\ deck[i] = SlideShapes(layouts[i].elements, 1, i, page_images)
                    /\ \A k \in 1..Len(deck[i]) :
                          /\ deck[i][k].of \in 1..Len(layouts[i].elements)
                          /\ deck[i][k].kind # "picture" \/ deck[i][k].crop.page = i
                    /\ layouts[i].elements = <<>> => deck[i] = <<>>

(* A two-page job under ai_vision whose first page has no elements and     *)
(* whose second has some: two slides, the first one empty.                 *)
C14_Witness ==
    /\ pc = "done"
    /\ method_used = "ai_vision"
    /\ npages = 2
    /\ layouts[1].elements = <<>>
    /\ layouts[2].elements # <<>>
    /\ Len(deck) = 2
    /\ deck[1] = <<>>
    /\ deck[2] # <<>>
    /\ response.slide_count = 2

(* The tier a stage belongs to: 0 rasterization, 1 vision, 2 direct,       *)
(* 3 background images.                                                    *)
TierOf(stage) ==
    CASE stage = "rasterize" -> 0
      [] stage \in {"analyze", "build_ai"} -> 1
      [] stage \in {"extract", "build_pdf"} -> 2
      [] OTHER -> 3

Builders == {"build_ai", "build_pdf", "build_raster"}

BuilderOf(method) ==
    CASE method = "ai_vision" -> "build_ai"
      [] method = "direct_extraction" -> "build_pdf"
      [] OTHER -> "build_raster"

(* C15: the stages of a job run in the order rasterization, vision tier,   *)
(* direct tier, background images.  Rasterization is the first stage and   *)
(* runs once; no stage of a tier runs after a stage of a later tier; the   *)
(* vision batch (one analysis per page), the extraction and each builder   *)
(* run at most once, the batch before the vision builder and the           *)
(* extraction before the direct builder.  When the job has succeeded the   *)
(* last stage is the builder of the reported method, the deck is what it   *)
(* built, and every other builder that ran raised and wrote nothing.       *)
C15_TierOrder ==
    /\ calls # <<>> => calls[1] = "rasterize"
    /\ CountCalls("rasterize") <= 1
    /\ \A k \in 1..Len(calls) : \A l \in 1..Len(calls) :
          k < l =>
              /\ TierOf(calls[k]) <= TierOf(calls[l])
              /\ ~(calls[k] = "build_ai" /\ calls[l] = "analyze")
              /\ ~(calls[k] = "build_pdf" /\ calls[l] = "extract")
    /\ CountCalls("analyze") <= npages
    /\ \A b \in Builders \cup {"extract"} : CountCalls(b) <= 1
    /\ pc = "done" =>
          /\ calls[Len(calls)] = BuilderOf(method_used)
          /\ response.method = method_used
          /\ method_used \in {"ai_vision", "direct_extraction", "image_fallback"}
          /\ \A b \in Builders \ {BuilderOf(method_used)} : Ran(b) => b \in raised
          /\ BuilderOf(method_used) \notin raised
          /\ deck = CASE method_used = "ai_vision" ->
                            build_pptx_from_ai_data(layouts, page_images).slides
                      [] method_used = "direct_extraction" ->
                            build_pptx_from_pdf_data(slides_data).slides
                      [] OTHER -> build_pptx_with_background_images(page_images).slides

(* A PDF job that went through the three tiers: the vision builder raised, *)
(* the extraction found too little text, the background images are the     *)
(* result.                                                                 *)
C15_Witness ==
    /\ pc = "done"
    /\ npages = 2
    /\ calls = <<"rasterize", "analyze", "analyze", "build_ai", "extract", "build_raster">>
    /\ method_used = "image_fallback"
    /\ "build_ai" \in raised

(* C16: the model is called for page 1, then page 2, ..., each page at     *)
(* most once.  A job with a credential that got past rasterization has     *)
(* called it once for every page by the time the vision batch is over,     *)
(* also when the call of an earlier page raised; a job without a           *)
(* credential never calls it.                                              *)
C16_OneModelCallPerPage ==
    /\ Len(model_calls) <= npages
    /\ \A k \in 1..Len(model_calls) : model_calls[k] = k
    /\ ~use_ai => model_calls = <<>>
    /\ (use_ai /\ pc \notin {"rasterize", "vision"} /\ "rasterize" \notin raised) =>
          Len(model_calls) = npages
    /\ (use_ai /\ pc = "vision") => Len(model_calls) = Len(replies)

(* A two-page job whose first model call raised: the second page was       *)
(* still asked about, once.                                                *)
C16_Witness ==
    /\ Ended
    /\ use_ai
    /\ npages = 2
    /\ model_calls = <<1, 2>>
    /\ replies # <<>>
    /\ replies[1].throws
    /\ ~replies[2].throws

-----------------------------------------------------------------------------
(* One page through the analyzer and the vision builder *)

(* The replies: an optional opening fence, a body, an optional closing     *)
(* fence, and trailing prose that may hold braces.                         *)
Items == {ElemTok(e) : e \in RawElems} \cup {SCALAR}
Objects == {<<LB>> \o items \o <<RB>> : items \in SeqsUpTo(Items, MaxElems)}
Bodies ==
    {<<>>, <<ARR>>, <<SCALAR>>, <<PROSE>>, <<LB>>, <<LB, ElemTok(E_TEXT)>>}
        \cup Objects
Fences == {<<>>, <<FENCE>>}
Proses == SeqsUpTo({PROSE, LB, RB}, MaxProse)
Replies ==
    {pre \o body \o post \o prose :
        pre \in Fences, body \in Bodies, post \in Fences, prose \in Proses}

RasterSizes == {PageRaster, Raster(1, 1)}

InitAnalyze ==
    /\ pc = "a_call"
    /\ file_type = "images"
    /\ use_ai = TRUE
    /\ npages = 1
    /\ page_images \in {<<r>> : r \in RasterSizes}
    /\ replies \in {<<c>> : c \in {CallThrows} \cup {Answer(r) : r \in Replies}}
    /\ layouts = <<>>
    /\ total_elements = -1
    /\ slides_data = <<>>
    /\ method_used = "unknown"
    /\ deck = <<>>
    /\ output_file = "none"
    /\ job_dir = TRUE
    /\ response = NoResponse
    /\ calls = <<>>
    /\ model_calls = <<>>
    /\ raised = {}

(* analyze_slide on the page, inside analyze_slides_batch's try. *)
AnalyzeOne ==
    /\ pc = "a_call"
    /\ layouts' = BatchAppend(layouts, replies[1])
    /\ raised' = IF analyze_slide(replies[1]).raised THEN {"analyze_slide"} ELSE {}
    /\ calls' = Append(calls, "analyze")
    /\ model_calls' = Append(model_calls, NextPage(0))
    /\ pc' = "a_parsed"
    /\ UNCHANGED <<file_type, use_ai, npages, page_images, replies,
                   total_elements, slides_data, method_used, deck, output_file,
                   job_dir, response>>

(* build_pptx_from_ai_data on the page's layout. *)
BuildOne ==
    /\ pc = "a_parsed"
    /\ LET r == build_pptx_from_ai_data(layouts, page_images)
       IN /\ deck' = r.slides
          /\ raised' = IF r.raised THEN raised \cup {"build_ai"} ELSE raised
          /\ output_file' = IF r.raised THEN "none" ELSE "written"
    /\ calls' = Append(calls, "build_ai")
    /\ pc' = "a_built"
    /\ UNCHANGED <<model_calls, file_type, use_ai, npages, page_images, replies, layouts,
                   total_elements, slides_data, method_used, job_dir, response>>

NextAnalyze ==
    \/ AnalyzeOne
    \/ BuildOne

SpecAnalyze == InitAnalyze /\ [][NextAnalyze]_vars

-----------------------------------------------------------------------------
(* Properties of one page *)

(* The first balanced top-level {...} of a text: from its first { to the   *)
(* } that closes it; <<>> when there is none.                              *)
RECURSIVE ClosingIndex(_, _, _)
ClosingIndex(toks, j, depth) ==
    IF j > Len(toks) THEN 0
    ELSE LET d == IF toks[j].t = "lbrace" THEN depth + 1
                  ELSE IF toks[j].t = "rbrace" THEN depth - 1 ELSE depth
         IN IF d = 0 THEN j ELSE ClosingIndex(toks, j + 1, d)

FirstBalanced(toks) ==
    LET opens == {j \in 1..Len(toks) : HasOpen(toks[j])}
    IN IF opens = {} THEN <<>>
       ELSE LET first == CHOOSE j \in opens : \A k \in opens : j <= k
                last == IF toks[first].t = "elem" THEN first
                        ELSE ClosingIndex(toks, first, 0)
            IN IF last = 0 THEN <<>> ELSE SubSeq(toks, first, last)

Analysed == pc \in {"a_parsed", "a_built"}
ReplyText == replies[1].text

(* Well-formed objects, fenced or not, followed by prose. *)
GoodObjects ==
    {<<LB>> \o items \o <<RB>> :
        items \in SeqsUpTo({ElemTok(e) : e \in WellFormedElems}, MaxElems)}
ObjectThenProse ==
    {body \o prose : body \in GoodObjects, prose \in Proses}
        \cup {<<FENCE>> \o body \o <<FENCE>> \o prose :
                body \in GoodObjects, prose \in Proses}

(* C7, as stated: for a well-formed object, fenced or not, followed by any *)
(* prose (braces included), analyze_slide returns the layout of the first  *)
(* balanced top-level {...} of the reply.                                  *)
C7_FirstBalancedObject ==
    (Analysed /\ ~replies[1].throws /\ ReplyText \in ObjectThenProse) =>
        /\ "analyze_slide" \notin raised
        /\ layouts[1] = LayoutOfData(JsonLoads(FirstBalanced(ReplyText))).layout

(* A reply that is empty or yields no JSON object: strict parsing gives no *)
(* object, and either gives another JSON value or the extracted span gives *)
(* no object either.                                                       *)
Unusable(text) ==
    \/ text = <<>>
    \/ /\ JsonLoads(StripFences(text)).kind # "obj"
       /\ \/ JsonLoads(StripFences(text)).kind \in {"arr", "scalar"}
          \/ JsonLoads(RegexSearch(StripFences(text))).kind # "obj"

(* C8, as stated: on every empty reply and every reply that yields no JSON *)
(* object (an array or a bare string included) analyze_slide returns the   *)
(* empty layout and does not raise.                                        *)
C8_UnusableReplyGivesEmptyLayout ==
    (Analysed /\ ~replies[1].throws /\ Unusable(ReplyText)) =>
        /\ "analyze_slide" \notin raised
        /\ layouts[1] = SlideLayout

(* The items of a reply that is one plain object. *)
IsObject(text) ==
    Len(text) >= 2 /\ text[1] = LB /\ text[Len(text)] = RB
        /\ \A j \in 2..(Len(text) - 1) : text[j] \in Items
ItemsOf(text) == SubSeq(text, 2, Len(text) - 1)
KnownTypes == {"text", "shape", "image"}

(* C9, as stated: an element whose type is missing or unknown is kept in   *)
(* the layout and gets a text box on the slide; a missing x becomes 0 and  *)
(* a missing font size 14.                                                 *)
C9_UnknownTypeIsText ==
    (/\ pc = "a_built"
     /\ ~replies[1].throws
     /\ IsObject(ReplyText)
     /\ raised = {}) =>
        \A j \in 1..Len(ItemsOf(ReplyText)) :
            LET e == ItemsOf(ReplyText)[j].e
            IN /\ e.type \notin KnownTypes =>
                    /\ Len(layouts[1].elements) = Len(ItemsOf(ReplyText))
                    /\ \E k \in 1..Len(deck[1]) :
                            (deck[1][k].kind = "textbox" /\ deck[1][k].of = j)
               /\ e.x = Missing => layouts[1].elements[j].x = 0
               /\ e.font_size = Missing => layouts[1].elements[j].font_size = 14

(* C10, as stated: when some elements of a parsed reply have a field of    *)
(* the wrong kind or are no objects, no error leaves analyze_slide and the *)
(* page's layout still holds the well-formed elements of the reply.        *)
C10_MalformedElementKeepsPage ==
    (/\ Analysed
     /\ ~replies[1].throws
     /\ IsObject(ReplyText)
     /\ \E j \in 1..Len(ItemsOf(ReplyText)) : ItemRaises(ItemsOf(ReplyText)[j])
     /\ \E j \in 1..Len(ItemsOf(ReplyText)) : ~ItemRaises(ItemsOf(ReplyText)[j])) =>
        /\ "analyze_slide" \notin raised
        /\ \A j \in 1..Len(ItemsOf(ReplyText)) :
                ~ItemRaises(ItemsOf(ReplyText)[j]) =>
                    \E k \in 1..Len(layouts[1].elements) :
                        layouts[1].elements[k] = SlideElement(ItemsOf(ReplyText)[j])

-----------------------------------------------------------------------------
(* One deck through a builder *)

(* Percentages a layout element may carry and sizes in pt a span may have: *)
(* negative, zero, inside and beyond the slide.                            *)
Pcts == {-10, 0, 20, 35, 60, 100, 150}
PtSizes == {-5, 0, 9, 10, 11, 300}

(* An element as analyze_slide hands it over. *)
VElem(type, x, y, width, height) ==
    SlideElement(ElemTok(RawElem(type, Num(x), Num(y), Num(width), Num(height),
                                 Missing, NoColor)))

GeomElems ==
    {VElem(type, x, y, width, height) :
        type \in {"text", "image"}, x \in Pcts, y \in Pcts, width \in Pcts, height \in Pcts}

OrderElems ==
    {SlideElement(ElemTok(e)) : e \in {E_TEXT, E_SHAPE, E_IMAGE, E_IMAGE0, E_CHART}}

BuildRasters == {PageRaster, Raster(1, 1), Raster(13, 9)}
OtherRaster == Raster(4, 2)

Layout(elements) == [elements |-> elements, background_color |-> ColWhite]

(* A span at (40, 40) of the given width and height. *)
SizedSpan(core, width, height) == Span(Text(0, core, 0), <<40, 40, 40 + width, 40 + height>>)

GeomSpans == {SizedSpan(3, width, height) : width \in PtSizes, height \in PtSizes}
OrderSpans == {SizedSpan(3, 0, 0), SizedSpan(0, 50, 12), SizedSpan(5, 50, 12)}

InitBuild ==
    /\ file_type = "pdf"
    /\ use_ai \in BOOLEAN
    /\ npages = 2
    /\ page_images \in {<<r, OtherRaster>> : r \in BuildRasters}
    /\ replies = <<>>
    /\ IF use_ai
       THEN /\ pc = "b_vision"
            /\ layouts \in
                 {<<Layout(es), Layout(<<VElem("image", 0, 0, 100, 100)>>)>> :
                    es \in {<<e>> : e \in GeomElems} \cup SeqsUpTo(OrderElems, MaxElems)}
            /\ slides_data = <<>>
       ELSE /\ pc = "b_direct"
            /\ layouts = <<>>
            /\ page_images[1] = PageRaster
            /\ slides_data \in
                 {extract_from_pdf(<<Page(spans, <<"png_ok">>), Page(<<>>, <<>>)>>) :
                    spans \in {<<sp>> : sp \in GeomSpans} \cup SeqsUpTo(OrderSpans, MaxElems)}
    /\ total_elements = -1
    /\ method_used = "unknown"
    /\ deck = <<>>
    /\ output_file = "none"
    /\ job_dir = TRUE
    /\ response = NoResponse
    /\ calls = <<>>
    /\ model_calls = <<>>
    /\ raised = {}

(* build_pptx_from_ai_data on the layouts and the rasters. *)
BuildVision ==
    /\ pc = "b_vision"
    /\ LET r == build_pptx_from_ai_data(layouts, page_images)
       IN /\ deck' = r.slides
          /\ raised' = IF r.raised THEN {"build_ai"} ELSE {}
          /\ output_file' = IF r.raised THEN "none" ELSE "written"
    /\ calls' = Append(calls, "build_ai")
    /\ pc' = "b_built_vision"
    /\ UNCHANGED <<model_calls, file_type, use_ai, npages, page_images, replies, layouts,
                   total_elements, slides_data, method_used, job_dir, response>>

(* build_pptx_from_pdf_data on the extracted pages. *)
BuildDirect ==
    /\ pc = "b_direct"
    /\ LET r == build_pptx_from_pdf_data(slides_data)
       IN /\ deck' = r.slides
          /\ raised' = IF r.raised THEN {"build_pdf"} ELSE {}
          /\ output_file' = IF r.raised THEN "none" ELSE "written"
    /\ calls' = Append(calls, "build_pdf")
    /\ pc' = "b_built_direct"
    /\ UNCHANGED <<model_calls, file_type, use_ai, npages, page_images, replies, layouts,
                   total_elements, slides_data, method_used, job_dir, response>>

NextBuild ==
    \/ BuildVision
    \/ BuildDirect

SpecBuild == InitBuild /\ [][NextBuild]_vars

-----------------------------------------------------------------------------
(* Properties of a built deck *)

BuiltVision == pc = "b_built_vision"
BuiltDirect == pc = "b_built_direct"

(* The shapes of slide i made from item j of the page. *)
ShapesOf(i, j) == {k \in 1..Len(deck[i]) : deck[i][k].of = j}

(* C11: whatever the width and height of a text block or of a layout       *)
(* element, zero and negative ones included, the shape it gives is at      *)
(* least 10 pt = 127000 EMU wide and high when it is a text box of the     *)
(* direct builder, and at least 100000 EMU wide and high when it is a      *)
(* shape of the vision builder.                                            *)
C11_MinimumSize ==
    /\ BuiltDirect =>
          \A i \in 1..Len(deck) : \A k \in 1..Len(deck[i]) :
              deck[i][k].kind = "textbox" =>
                  /\ deck[i][k].box.width >= 127000
                  /\ deck[i][k].box.height >= 127000
    /\ BuiltVision =>
          \A i \in 1..Len(deck) : \A k \in 1..Len(deck[i]) :
              /\ deck[i][k].box.width >= 100000
              /\ deck[i][k].box.height >= 100000

(* A text box of the direct builder made from a block of no width and of   *)
(* negative height.                                                        *)
C11_Witness ==
    /\ BuiltDirect
    /\ Len(deck[1]) >= 1
    /\ deck[1][1].kind = "textbox"
    /\ slides_data[1].text_blocks[1].width = 0
    /\ slides_data[1].text_blocks[1].height < 0
    /\ deck[1][1].box.width = 127000
    /\ deck[1][1].box.height = 127000

(* A length of pixels from lo on a raster side of size pixels, clamped:    *)
(* the start into 0..size-1, the end to at most size.                      *)
ClampedStart(lo, size) == Max(0, Min(lo, size - 1))
ClampedEnd(lo, len, size) == Min(ClampedStart(lo, size) + len, size)

(* C12: for an image element of page i, whatever its percentages, each     *)
(* picture made from it shows raster i on a rectangle with                 *)
(* 0 <= x0 < x1 <= W and 0 <= y0 < y1 <= H; no picture is made when the    *)
(* clamped region is not at least one pixel wide and high; the builder     *)
(* does not raise; and for x=60, y=20, width=35, height=60 the rectangle   *)
(* is (0.60W, 0.20H)-(0.95W, 0.80H), each coordinate truncated, the far    *)
(* ones possibly one pixel less.                                           *)
C12_CropWithinRaster ==
    BuiltVision =>
        /\ "build_ai" \notin raised
        /\ \A i \in 1..Len(layouts) : \A j \in 1..Len(layouts[i].elements) :
              LET e == layouts[i].elements[j]
                  W == page_images[i].w
                  H == page_images[i].h
              IN e.type = "image" =>
                    /\ \A k \in ShapesOf(i, j) :
                          LET c == deck[i][k].crop
                          IN /\ deck[i][k].kind = "picture"
                             /\ c.page = i
                             /\ 0 <= c.x0 /\ c.x0 < c.x1 /\ c.x1 <= W
                             /\ 0 <= c.y0 /\ c.y0 < c.y1 /\ c.y1 <= H
                             /\ (e.x = 60 /\ e.y = 20 /\ e.width = 35 /\ e.height = 60) =>
                                   /\ c.x0 = Trunc(60 * W, 100)
                                   /\ c.y0 = Trunc(20 * H, 100)
                                   /\ c.x1 \in {Trunc(95 * W, 100) - 1, Trunc(95 * W, 100)}
                                   /\ c.y1 \in {Trunc(80 * H, 100) - 1, Trunc(80 * H, 100)}
                    /\ (\/ ClampedEnd(Trunc(W * e.x, 100), Trunc(W * e.width, 100), W)
                              <= ClampedStart(Trunc(W * e.x, 100), W)
                        \/ ClampedEnd(Trunc(H * e.y, 100), Trunc(H * e.height, 100), H)
                              <= ClampedStart(Trunc(H * e.y, 100), H)) =>
                          ShapesOf(i, j) = {}

(* An image element that starts left of the raster and below it: its       *)
(* picture shows the rectangle (0, 99)-(70, 100) of the 200 x 100 raster   *)
(* of its page, and the picture of the second page shows that page's       *)
(* 4 x 2 raster.                                                           *)
C12_Witness ==
    /\ BuiltVision
    /\ page_images[1] = PageRaster
    /\ layouts[1].elements = <<VElem("image", -10, 150, 35, 20)>>
    /\ Len(deck[1]) = 1
    /\ deck[1][1].crop = Crop(1, [x0 |-> 0, y0 |-> 99, x1 |-> 70, y1 |-> 100])
    /\ deck[2][1].crop = Crop(2, [x0 |-> 0, y0 |-> 0, x1 |-> 4, y1 |-> 2])

(* C13: on a slide of the vision builder the shapes stand in the order of  *)
(* the elements they were made from: an element gives at most one shape,   *)
(* of the kind of its type, a text or shape element always gives one, and  *)
(* of two shapes the one made from the earlier element was added first.    *)
C13_PaintOrderIsInputOrder ==
    BuiltVision =>
        \A i \in 1..Len(deck) :
            /\ \A k \in 1..Len(deck[i]) : \A l \in 1..Len(deck[i]) :
                  k < l => deck[i][k].of < deck[i][l].of
            /\ \A k \in 1..Len(deck[i]) :
                  /\ deck[i][k].of \in 1..Len(layouts[i].elements)
                  /\ deck[i][k].kind =
                        CASE layouts[i].elements[deck[i][k].of].type = "text" -> "textbox"
                          [] layouts[i].elements[deck[i][k].of].type = "shape" -> "rect"
                          [] OTHER -> "picture"
            /\ \A j \in 1..Len(layouts[i].elements) :
                  layouts[i].elements[j].type \in {"text", "shape"} =>
                      Cardinality(ShapesOf(i, j)) = 1

(* A page that lists a picture before a rectangle: the picture is added    *)
(* first.                                                                  *)
C13_Witness ==
    /\ BuiltVision
    /\ page_images[1] = PageRaster
    /\ Len(layouts[1].elements) = 2
    /\ layouts[1].elements[1].type = "image"
    /\ layouts[1].elements[2].type = "shape"
    /\ Len(deck[1]) = 2
    /\ deck[1][1].kind = "picture" /\ deck[1][1].of = 1
    /\ deck[1][2].kind = "rect" /\ deck[1][2].of = 2

=============================================================================
